---- MODULE Spec2Model ----
(***************************************************************************)
(* Dual-backend persistence layer of lumi: the facade UserStorageModel,    *)
(* the remote store SupabaseStorageModel with its read-through cache, the  *)
(* per-device localStorage blob 'lumi_users' and the sessionStorage        *)
(* markers.  Every handler is one atomic action; the outcome of each       *)
(* remote call and of each localStorage write is an input of the action.   *)
(***************************************************************************)
EXTENDS Integers, Sequences, FiniteSets, TLC

----------------------------------------------------------------------------
(* Bounds of the model *)

\* leading / trailing blanks put around a username typed at login
MaxPad == 1
\* the clock runs from 1 to MaxTime
MaxTime == 3
\* handler calls in one behaviour
MaxCalls == 3
\* config.cacheTimeout, in clock ticks
CacheTimeout == 1
\* get_or_create_user calls the remote store runs at the same time
MaxTxns == 2
\* calls in one behaviour of the migration
MaxMigrationCalls == 2
\* setCurrentUser calls in one behaviour
MaxLogins == 2

\* CHECK (char_length(username) <= 50) and the same test in get_or_create_user
MaxUsernameLen == 50

----------------------------------------------------------------------------
(* Values *)

SP == " "
\* a JavaScript undefined / null argument or an absent storage key
Undefined == <<"undefined">>
Null == <<"null">>

Names == {<<"a">>, <<"b">>}
Omitted == "omitted"
\* the (badgeName, badgeEmoji) arguments of addBadge
BadgeArgs == {<<"Star", Omitted>>, <<"Moon", "trophy">>}
\* addBadge and createUser arguments as any caller may pass them: the empty
\* username and the empty badge name included
AnyUsernames == {<<"a">>, <<>>}
AnyBadgeArgs == {<<"Star", Omitted>>, <<"", Omitted>>}
Passwords == {<<"p">>}
PasswordArgs == {Undefined, <<SP>>} \cup Passwords

Pad(n) == [i \in 1..n |-> SP]
\* the usernames typed at login: absent, blank, plain and padded
RawUsernames ==
    {Undefined} \cup
    {Pad(i) \o core \o Pad(i) : i \in 0..MaxPad, core \in {<<"a">>, <<>>}}

EmptyMap == <<>>
Put(m, k, v) == [x \in DOMAIN m \cup {k} |-> IF x = k THEN v ELSE m[x]]

----------------------------------------------------------------------------
(* String helpers of the JavaScript runtime *)

IsSpace(c) == c = SP

RECURSIVE TrimStart(_)
TrimStart(s) ==
    IF s = <<>> THEN <<>>
    ELSE IF IsSpace(Head(s)) THEN TrimStart(Tail(s)) ELSE s

RECURSIVE TrimEnd(_)
TrimEnd(s) ==
    IF s = <<>> THEN <<>>
    ELSE IF IsSpace(s[Len(s)]) THEN TrimEnd(SubSeq(s, 1, Len(s) - 1)) ELSE s

\* variant of Trim: the trailing blanks stay
Trim_LeadingOnly(s) == TrimStart(s)

\* String.prototype.trim
Trim(s) == TrimEnd(TrimStart(s))

\* variant of IsBlank: only the falsy values, !username
IsBlank_FalsyOnly(s) == s = Undefined \/ s = <<>>

\* !username || username.trim() === ''
IsBlank(s) == s = Undefined \/ s = <<>> \/ Trim(s) = <<>>

\* a default parameter value applies to an omitted argument only
DefaultParam(arg, dflt) == IF arg = Omitted THEN dflt ELSE arg

----------------------------------------------------------------------------
VARIABLES
    config,        \* SupabaseConfig and the client the constructor obtained
    session,       \* sessionStorage
    lumi_users,    \* localStorage['lumi_users']
    currentUserId, \* SupabaseStorageModel.currentUserId
    cache,         \* SupabaseStorageModel.cache
    dbUsers,       \* remote table users: rows [id, username]
    dbBadges,      \* remote table badges
    authUsers,     \* remote auth accounts: email -> password
    now,           \* Date.now()
    writtenAt,     \* history: when each cache entry was stored
    log,           \* history: the completed calls and what they returned
    pending,       \* the asynchronous call suspended at an await, if any
    txns           \* remote store: the get_or_create_user calls in progress

vars == <<config, session, lumi_users, currentUserId, cache, dbUsers, dbBadges,
          authUsers, now, writtenAt, log, pending, txns>>

----------------------------------------------------------------------------
(* LocalStore: UserStorageModel over localStorage *)

\* variant of GetAllUsers: a missing or unparsable blob reads as a store that
\* holds a badge for every user
GetAllUsers_Seeded(blob) ==
    IF blob.state = "json" THEN blob.users
    ELSE [u \in Names |-> [badges |-> <<[name |-> "Star", emoji |-> ""]>>]]

\* getAllUsers: a missing or unparsable blob reads as {}
GetAllUsers(blob) == IF blob.state = "json" THEN blob.users ELSE EmptyMap

\* saveAllUsers: setItem throws when the quota is exceeded; the flag is returned
SaveAllUsers(blob, users, quotaOk) ==
    [ok |-> quotaOk,
     blob |-> IF quotaOk THEN [state |-> "json", users |-> users] ELSE blob]

\* variant of UserExists: no user is ever found
UserExists_Never(blob, username) == FALSE

UserExists(blob, username) == username \in DOMAIN GetAllUsers(blob)

\* createUser: writes a fresh record under the username
CreateUser(blob, username, quotaOk) ==
    SaveAllUsers(blob,
                 Put(GetAllUsers(blob), username,
                     [badges |-> <<>>]),
                 quotaOk)

\* the badge => ... mapping of getBadges: a legacy string badge becomes an object
NormalizeBadge(badge) ==
    IF "legacy" \in DOMAIN badge
    THEN [name |-> badge.legacy, emoji |-> ""]
    ELSE badge

MapBadges(badges) == [i \in 1..Len(badges) |-> NormalizeBadge(badges[i])]

\* getUserData + the local branch of getBadges
LocalGetBadges(blob, username) ==
    LET users == GetAllUsers(blob) IN
    IF username \notin DOMAIN users THEN <<>> ELSE MapBadges(users[username].badges)

\* the local branch of UserStorageModel.addBadge
LocalAddBadge(blob, username, badgeName, badgeEmoji, quota1, quota2) ==
    LET users0 == GetAllUsers(blob)
        blob1 == IF username \in DOMAIN users0 THEN blob
                 ELSE CreateUser(blob, username, quota1).blob
        users1 == GetAllUsers(blob1)
    IN  IF username \notin DOMAIN users1
        THEN \* users[username] is undefined: reading .badges throws
             [ok |-> FALSE, threw |-> TRUE, blob |-> blob1]
        ELSE LET badgeData == [name |-> badgeName, emoji |-> badgeEmoji]
                 users2 == [users1 EXCEPT
                              ![username].badges = Append(@, badgeData)]
                 saved == SaveAllUsers(blob1, users2, quota2)
             IN  [ok |-> saved.ok, threw |-> FALSE, blob |-> saved.blob]

----------------------------------------------------------------------------
(* RemoteStore: the tables and functions of docs/supabase-schema.sql *)

HasSpace(s) == \E i \in 1..Len(s) : IsSpace(s[i])

\* gen_random_uuid() for the row of a username: ids are positive and distinct
Uuid(username) == IF username = <<"a">> THEN 1 ELSE IF username = <<"b">> THEN 2 ELSE 3

\* SELECT id FROM users WHERE username = ... (.single()); 0 when no row matches
SelectUserId(db, username) ==
    IF \E r \in db : r.username = username
    THEN (CHOOSE r \in db : r.username = username).id
    ELSE 0

\* variant of GetOrCreateUser: a new user gets an id but no row
GetOrCreateUser_NoInsert(db, p_username) ==
    LET name == Trim(p_username)
        found == SelectUserId(db, name)
    IN  IF name = <<>> \/ Len(name) > MaxUsernameLen \/ HasSpace(name)
        THEN [ok |-> FALSE, id |-> 0, db |-> db]
        ELSE [ok |-> TRUE, id |-> IF found # 0 THEN found ELSE Uuid(name),
              db |-> db]

\* get_or_create_user(p_username)
GetOrCreateUser(db, p_username) ==
    LET name == Trim(p_username)
        found == SelectUserId(db, name)
    IN  IF name = <<>> \/ Len(name) > MaxUsernameLen
        THEN [ok |-> FALSE, id |-> 0, db |-> db]
        ELSE IF found # 0
        THEN [ok |-> TRUE, id |-> found, db |-> db]
        ELSE IF HasSpace(name)
        THEN \* the insert violates CHECK (username !~ '\s')
             [ok |-> FALSE, id |-> 0, db |-> db]
        ELSE [ok |-> TRUE, id |-> Uuid(name),
              db |-> db \cup {[id |-> Uuid(name), username |-> name]}]

\* from('badges').select(...).eq('user_id', id).order('earned_at') and the
\* data.map(...) of getBadges; the rows are kept in the order of their earned_at
SelectBadges(rows, userId) ==
    LET mine == SelectSeq(rows, LAMBDA r : r.user_id = userId) IN
    [i \in 1..Len(mine) |->
        [name |-> mine[i].badge_name, emoji |-> mine[i].badge_emoji]]

\* the row addBadge inserts
BadgeRow(userId, badgeName, badgeEmoji) ==
    [user_id |-> userId, badge_name |-> badgeName, badge_emoji |-> badgeEmoji]

Lower(c) == IF c = "A" THEN "a" ELSE IF c = "B" THEN "b" ELSE c

\* .toLowerCase().replace(/\s+/g, '_'): each run of blanks becomes one '_'
RECURSIVE Slug(_)
Slug(s) ==
    IF s = <<>> THEN <<>>
    ELSE IF IsSpace(Head(s))
    THEN <<"_">> \o Slug(TrimStart(s))
    ELSE <<Lower(Head(s))>> \o Slug(Tail(s))

Email(trimmedUsername) == Slug(trimmedUsername) \o <<"@lumi.local">>

\* auth.signInWithPassword: "ok", "invalid" (Invalid login credentials), "error"
SignIn(accounts, email, password, net) ==
    IF net # "ok" THEN "error"
    ELSE IF email \in DOMAIN accounts /\ accounts[email] = password THEN "ok"
    ELSE "invalid"

\* auth.signUp: "ok", "nouser" (no error and no user in the answer), "error"
SignUp(accounts, email, password, net) ==
    IF net = "fail" \/ email \in DOMAIN accounts THEN "error"
    ELSE IF net = "nouser" THEN "nouser"
    ELSE "ok"

----------------------------------------------------------------------------
(* CacheLayer: SupabaseStorageModel.cache *)

NullMap == [set |-> FALSE, map |-> EmptyMap]
\* the cache the constructor builds
EmptyCache == [users |-> NullMap, badges |-> NullMap, lastUpdate |-> 0]
NoTimes == [users |-> EmptyMap, badges |-> EmptyMap]

\* variant of ClearCache: only the timestamp is reset
ClearCache_StampOnly == [cache EXCEPT !.lastUpdate = 0]

\* clearCache
ClearCache == EmptyCache

\* variant of IsCacheValid: the cache is never trusted
IsCacheValid_Never(c) == FALSE

\* isCacheValid
IsCacheValid(c) ==
    IF c.lastUpdate = 0 THEN FALSE
    ELSE (now - c.lastUpdate) < CacheTimeout

\* variant of UpdateCache: the stored entry replaces the map of its type
UpdateCache_Replace(c, type, key, value) ==
    [c EXCEPT ![type] = [set |-> TRUE, map |-> Put(EmptyMap, key, value)],
              !.lastUpdate = now]

\* updateCache(type, key, value)
UpdateCache(c, type, key, value) ==
    [c EXCEPT ![type] = [set |-> TRUE,
                         map |-> Put(IF @.set THEN @.map ELSE EmptyMap,
                                     key, value)],
              !.lastUpdate = now]

\* history of updateCache: the entry is stamped with the time it is stored
Stamp(w, type, key) == [w EXCEPT ![type] = Put(@, key, now)]

\* this.cache[type]?.[key] is present
Cached(c, type, key) == c[type].set /\ key \in DOMAIN c[type].map

\* getUserId(username); net is the answer of the remote lookup
GetUserId(c, w, username, net) ==
    LET miss == [id |-> 0, cache |-> c, w |-> w, calls |-> <<>>,
                 idHit |-> FALSE, idAge |-> 0]
    IN  IF IsCacheValid(c) /\ Cached(c, "users", username)
           /\ c.users.map[username] # 0
        THEN [miss EXCEPT !.id = c.users.map[username], !.idHit = TRUE,
                          !.idAge = now - w.users[username]]
        ELSE IF ~config.client
        THEN miss   \* this.client is null: the TypeError is caught
        ELSE IF net # "ok"
        THEN [miss EXCEPT !.calls = << <<"users.select", "fail">> >>]
        ELSE LET id == SelectUserId(dbUsers, username) IN
             IF id = 0
             THEN [miss EXCEPT !.calls = << <<"users.select", "notfound">> >>]
             ELSE [miss EXCEPT !.id = id,
                               !.cache = UpdateCache(c, "users", username, id),
                               !.w = Stamp(w, "users", username),
                               !.calls = << <<"users.select", "ok">> >>]

----------------------------------------------------------------------------
(* SupabaseStorageModel *)

\* isAvailable
IsAvailable == config.client

\* getAllUsersFromLocalStorage
GetAllUsersFromLocalStorage(blob) ==
    IF blob.state = "json" THEN blob.users ELSE EmptyMap

\* getBadgesFromLocalStorage
GetBadgesFromLocalStorage(blob, username) ==
    LET users == GetAllUsersFromLocalStorage(blob) IN
    IF username \notin DOMAIN users THEN <<>> ELSE MapBadges(users[username].badges)

\* variant of AddBadgeToLocalStorage: reports the write without making it
AddBadgeToLocalStorage_NoWrite(blob, username, badgeName, badgeEmoji, quotaOk) ==
    [ok |-> quotaOk, threw |-> ~quotaOk, blob |-> blob]

\* addBadgeToLocalStorage: setItem is not guarded, a quota error escapes
AddBadgeToLocalStorage(blob, username, badgeName, badgeEmoji, quotaOk) ==
    LET users0 == GetAllUsersFromLocalStorage(blob)
        users1 == IF username \in DOMAIN users0 THEN users0
                  ELSE Put(users0, username, [badges |-> <<>>])
        users2 == [users1 EXCEPT
                     ![username].badges =
                        Append(@, [name |-> badgeName, emoji |-> badgeEmoji])]
    IN  IF quotaOk
        THEN [ok |-> TRUE, threw |-> FALSE,
              blob |-> [state |-> "json", users |-> users2]]
        ELSE [ok |-> FALSE, threw |-> TRUE, blob |-> blob]

\* getBadges(username); net1, net2 answer the user lookup and the badge query
SbGetBadges(username, net1, net2) ==
    LET base == [list |-> <<>>, cache |-> cache, w |-> writtenAt, calls |-> <<>>,
                 hit |-> FALSE, age |-> 0, idHit |-> FALSE, idAge |-> 0,
                 path |-> "remote"]
    IN  IF IsCacheValid(cache) /\ Cached(cache, "badges", username)
        THEN [base EXCEPT !.list = cache.badges.map[username], !.hit = TRUE,
                          !.age = now - writtenAt.badges[username]]
        ELSE LET g == GetUserId(cache, writtenAt, username, net1)
                 looked == [base EXCEPT !.cache = g.cache, !.w = g.w,
                                        !.calls = g.calls, !.idHit = g.idHit,
                                        !.idAge = g.idAge]
             IN  IF g.id = 0 THEN looked
                 ELSE IF ~config.client \/ net2 # "ok"
                 THEN [looked EXCEPT
                         !.calls = IF config.client
                                   THEN Append(@, <<"badges.select", "fail">>)
                                   ELSE @,
                         !.list = IF config.fallbackToLocalStorage
                                  THEN GetBadgesFromLocalStorage(lumi_users, username)
                                  ELSE <<>>,
                         !.path = IF config.fallbackToLocalStorage
                                  THEN "fallback" ELSE "failed"]
                 ELSE LET badges == SelectBadges(dbBadges, g.id) IN
                      [looked EXCEPT
                         !.calls = Append(@, <<"badges.select", "ok">>),
                         !.list = badges,
                         !.cache = UpdateCache(g.cache, "badges", username, badges),
                         !.w = Stamp(g.w, "badges", username)]

\* addBadge(username, badgeName, badgeEmoji); net1 answers the user lookup and
\* net2 the insert: "ok", "fail" (not applied) or "lost" (applied, error returned)
SbAddBadge(username, badgeName, badgeEmoji, net1, net2, quotaOk) ==
    LET g == GetUserId(cache, writtenAt, username, net1)
        base == [ok |-> FALSE, threw |-> FALSE, cache |-> g.cache, w |-> g.w,
                 rows |-> dbBadges, blob |-> lumi_users, calls |-> g.calls,
                 idHit |-> g.idHit, idAge |-> g.idAge, path |-> "failed"]
        row == BadgeRow(g.id, badgeName, badgeEmoji)
        tried == IF g.id = 0 \/ ~config.client THEN base
                 ELSE [base EXCEPT
                         !.calls = Append(@, <<"badges.insert", net2>>),
                         !.rows = IF net2 = "fail" THEN @ ELSE Append(@, row)]
    IN  IF g.id # 0 /\ config.client /\ net2 = "ok"
        THEN [tried EXCEPT !.ok = TRUE, !.cache = ClearCache, !.w = NoTimes,
                           !.path = "remote"]
        ELSE IF config.fallbackToLocalStorage
        THEN LET l == AddBadgeToLocalStorage(lumi_users, username, badgeName,
                                             badgeEmoji, quotaOk)
             IN  [tried EXCEPT !.ok = l.ok, !.threw = l.threw, !.blob = l.blob,
                               !.path = "fallback"]
        ELSE tried

\* rpc('get_or_create_user', ...)
Rpc(db, username, net) ==
    IF net # "ok" THEN [ok |-> FALSE, id |-> 0, db |-> db]
    ELSE GetOrCreateUser(db, username)

\* variant: the catch blocks mark the session as remote
LoginFallback_MarksRemote(r, trimmedUsername) ==
    [r EXCEPT !.ok = TRUE, !.path = "remote",
              !.session = [@ EXCEPT !.current_user = trimmedUsername,
                                    !.use_local_only = FALSE]]

\* variant: the catch blocks fall back whatever the configuration says
LoginFallback_Always(r, trimmedUsername) ==
    [r EXCEPT !.ok = TRUE, !.path = "fallback",
              !.session = [@ EXCEPT !.current_user = trimmedUsername,
                                    !.use_local_only = TRUE]]

\* the catch blocks of setCurrentUser
LoginFallback(r, trimmedUsername) ==
    IF config.fallbackToLocalStorage
    THEN [r EXCEPT !.ok = TRUE, !.path = "fallback",
                   !.session = [@ EXCEPT !.current_user = trimmedUsername,
                                         !.use_local_only = TRUE]]
    ELSE [r EXCEPT !.ok = FALSE, !.path = "failed"]

\* setCurrentUser(username, password); net1..net3 answer signInWithPassword,
\* signUp and the rpc
SbSetCurrentUser(username, password, net1, net2, net3) ==
    LET base == [ok |-> FALSE, session |-> session, userId |-> currentUserId,
                 db |-> dbUsers, accounts |-> authUsers, calls |-> <<>>,
                 path |-> "rejected"]
        trimmedUsername == Trim(username)
        email == Email(trimmedUsername)
        call(r, what, how) == [r EXCEPT !.calls = Append(@, <<what, how>>)]
        resolve(r, authId) ==
            LET q == Rpc(dbUsers, trimmedUsername, net3)
                r1 == call(r, "rpc.get_or_create_user", IF q.ok THEN "ok" ELSE "fail")
            IN  IF q.ok
                THEN [r1 EXCEPT
                        !.ok = TRUE, !.path = "remote", !.db = q.db,
                        !.userId = q.id,
                        !.session = [current_user |-> trimmedUsername,
                                     user_id |-> q.id,
                                     auth_user |-> IF authId = Null
                                                   THEN @.auth_user ELSE authId,
                                     use_local_only |-> FALSE]]
                ELSE LoginFallback(r1, trimmedUsername)
    IN  IF IsBlank(username) THEN base
        ELSE IF ~IsBlank(password)
        THEN IF ~config.client THEN LoginFallback(base, trimmedUsername)
             ELSE LET s1 == SignIn(authUsers, email, password, net1)
                      r1 == call(base, "auth.signInWithPassword", s1)
                  IN  IF s1 = "ok" THEN resolve(r1, email)
                      ELSE IF s1 = "invalid"
                      THEN LET s2 == SignUp(authUsers, email, password, net2)
                               r2 == call(r1, "auth.signUp", s2)
                           IN  IF s2 = "ok"
                               THEN resolve([r2 EXCEPT
                                               !.accounts = Put(@, email, password)],
                                            email)
                               ELSE IF s2 = "nouser"
                               THEN [r2 EXCEPT !.path = "failed"]
                               ELSE LoginFallback(r2, trimmedUsername)
                      ELSE LoginFallback(r1, trimmedUsername)
        ELSE IF ~config.client THEN LoginFallback(base, trimmedUsername)
        ELSE resolve(base, Null)

\* the session after logout
LoggedOut ==
    [current_user |-> Null, user_id |-> 0, auth_user |-> Null,
     use_local_only |-> FALSE]

----------------------------------------------------------------------------
(* State *)

Net == {"ok", "fail"}
InsertNet == {"ok", "fail", "lost"}
SignUpNet == {"ok", "fail", "nouser"}

Configs ==
    {[enabled |-> e, client |-> c, fallbackToLocalStorage |-> f] :
        e \in BOOLEAN, c \in BOOLEAN, f \in BOOLEAN}

\* a get_or_create_user call that has not started
NoTxn == [pc |-> "idle", p_username |-> Null, v_user_id |-> 0, ok |-> FALSE,
          id |-> 0]
NoTxns == [t \in 1..MaxTxns |-> NoTxn]

\* no call is suspended
NoPending ==
    [op |-> "none", user |-> Null, badges |-> <<>>, next |-> 1,
     migratedCount |-> 0, failedCount |-> 0, calls |-> <<>>, path |-> "none",
     attempts |-> <<>>, localList |-> <<>>, before |-> <<>>, begun |-> 0,
     answer |-> "none", idHit |-> FALSE, idAge |-> 0, args |-> <<>>]

Idle ==
    [op |-> "none", at |-> 0, user |-> Null, raw |-> Null, cred |-> FALSE, name |-> "",
     emoji |-> "", ok |-> FALSE, threw |-> FALSE, list |-> <<>>, count |-> 0,
     id |-> 0, calls |-> <<>>, hit |-> FALSE, age |-> 0, idHit |-> FALSE,
     idAge |-> 0, path |-> "none", saveFailed |-> FALSE, wrote |-> FALSE,
     localCount |-> 0, supabaseCount |-> 0, migratedCount |-> 0,
     failedCount |-> 0, message |-> "", attempts |-> <<>>, touched |-> {}]

\* the constructors: the client exists only when the configuration is enabled
\* and the supabase library is loaded; storage starts empty or unparsable
Init ==
    /\ config \in {c \in Configs : (c.client => c.enabled)
                                   /\ (~c.enabled => c.fallbackToLocalStorage)}
    /\ session = LoggedOut
    /\ lumi_users \in {[state |-> st, users |-> EmptyMap] : st \in {"missing", "corrupt"}}
    /\ currentUserId = 0
    /\ cache = EmptyCache
    /\ dbUsers \in {{}, {[id |-> Uuid(n), username |-> n] : n \in Names}}
    /\ dbBadges = <<>>
    /\ authUsers = EmptyMap
    /\ now = 1
    /\ writtenAt = NoTimes
    /\ log = <<>>
    /\ pending = NoPending
    /\ txns = NoTxns

\* supabaseStorage && supabaseStorage.isAvailable()
UseSupabase == config.enabled /\ IsAvailable

\* variant of UseLocalOnly: the mark is not consulted
UseLocalOnly_Ignored == FALSE

\* sessionStorage.getItem('lumi_use_local_only') === 'true'
UseLocalOnly == session.use_local_only

\* UserStorageModel.getCurrentUser
GetCurrentUser == session.current_user

\* the log with the record of the call that completes now; begun is the number
\* of calls that had completed when the call started
Done(rec) == Append(log, rec @@ [at |-> now, begun |-> Len(log)] @@ Idle)

\* one more handler call is possible
Call == Len(log) < MaxCalls

IsLogin(rec) == rec.op \in {"setCurrentUser", "storage.setCurrentUser"}

\* one more setCurrentUser call is possible
LoginCall == Call /\ Len(SelectSeq(log, IsLogin)) < MaxLogins

\* the last completed call
last == IF log = <<>> THEN Idle ELSE log[Len(log)]

----------------------------------------------------------------------------
(* Answers of the environment *)

\* The answers of the remote calls and of the localStorage writes of one
\* handler.  An answer that no call of the handler consumes is fixed, so that
\* every transition stands for one course of the handler.
LoginNets ==
    {t \in Net \X SignUpNet \X Net :
        /\ t[1] = "fail" => (t[2] = "ok" /\ t[3] = "ok")
        /\ t[2] # "ok" => t[3] = "ok"}
BadgeNets ==
    {t \in Net \X InsertNet \X BOOLEAN :
        /\ t[1] = "fail" => t[2] = "ok"
        /\ (t[1] = "ok" /\ t[2] = "ok") => t[3]}
ReadNets == {t \in Net \X Net : t[1] = "fail" => t[2] = "ok"}
\* a login without a username makes no call, one without a password the rpc only
LoginAnswers(username, password) ==
    IF IsBlank(username) \/ ~config.client THEN {<<"ok", "ok", "ok">>}
    ELSE IF IsBlank(password) THEN {<<"ok", "ok", n>> : n \in Net}
    ELSE LoginNets

----------------------------------------------------------------------------
(* Actions *)

\* time passes; the clock is read by the cache only, so its progress is
\* followed from the moment the cache holds a timestamp
Tick ==
    /\ cache.lastUpdate # 0
    /\ now < MaxTime
    /\ now' = now + 1
    /\ UNCHANGED <<txns, pending, config, session, lumi_users, currentUserId, cache, dbUsers,
                   dbBadges, authUsers, writtenAt, log>>

\* SupabaseStorageModel.setCurrentUser, called directly
StorageSetCurrentUser(username, password) ==
    /\ LoginCall
    /\ config.enabled
    /\ \E t \in LoginAnswers(username, password) :
       \E r \in {SbSetCurrentUser(username, password, t[1], t[2], t[3])} :
         /\ session' = r.session
         /\ currentUserId' = r.userId
         /\ dbUsers' = r.db
         /\ authUsers' = r.accounts
         /\ log' = Done([op |-> "storage.setCurrentUser", raw |-> username,
                          user |-> Trim(username), cred |-> ~IsBlank(password),
                          ok |-> r.ok, calls |-> r.calls, path |-> r.path])
    /\ UNCHANGED <<txns, pending, config, lumi_users, cache, dbBadges, now, writtenAt>>

\* UserStorageModel.setCurrentUser
SetCurrentUser(username, password) ==
    LET trimmedUsername == Trim(username)
        rec == [op |-> "setCurrentUser", raw |-> username,
                cred |-> ~IsBlank(password)]
    IN
    /\ LoginCall
    /\ UNCHANGED <<txns, pending, config, cache, dbBadges, now, writtenAt>>
    /\ IF IsBlank(username)
       THEN /\ log' = Done(rec @@ [path |-> "rejected"])
            /\ UNCHANGED <<session, lumi_users, currentUserId, dbUsers, authUsers>>
       ELSE IF UseSupabase /\ ~IsBlank(password)
       THEN \E t \in LoginAnswers(username, password) :
            \E r \in {SbSetCurrentUser(trimmedUsername, password, t[1], t[2], t[3])} :
              /\ session' = r.session
              /\ currentUserId' = r.userId
              /\ dbUsers' = r.db
              /\ authUsers' = r.accounts
              /\ log' = Done(rec @@ [user |-> trimmedUsername, ok |-> r.ok,
                                      calls |-> r.calls, path |-> r.path])
              /\ UNCHANGED lumi_users
       ELSE \E quotaOk \in BOOLEAN :
            \E c \in {IF UserExists(lumi_users, trimmedUsername)
                      THEN [ok |-> TRUE, blob |-> lumi_users]
                      ELSE CreateUser(lumi_users, trimmedUsername, quotaOk)} :
              /\ session' = [session EXCEPT !.current_user = trimmedUsername,
                                            !.use_local_only = TRUE]
              /\ lumi_users' = c.blob
              /\ log' = Done(rec @@ [user |-> trimmedUsername, ok |-> TRUE,
                                      path |-> "local", saveFailed |-> ~c.ok,
                                      wrote |-> c.blob # lumi_users])
              /\ UNCHANGED <<currentUserId, dbUsers, authUsers>>

\* UserStorageModel.logout, with the synchronous part of
\* SupabaseStorageModel.logout
Logout ==
    /\ Call
    /\ IF UseSupabase
       THEN /\ currentUserId' = 0
            /\ session' = LoggedOut
            /\ cache' = ClearCache
            /\ writtenAt' = NoTimes
            /\ log' = Done([op |-> "logout", ok |-> TRUE, path |-> "remote",
                             calls |-> << <<"auth.signOut", "ok">> >>])
       ELSE /\ session' = [session EXCEPT !.current_user = Null,
                                          !.use_local_only = FALSE]
            /\ log' = Done([op |-> "logout", ok |-> TRUE, path |-> "local"])
            /\ UNCHANGED <<currentUserId, cache, writtenAt>>
    /\ UNCHANGED <<txns, pending, config, lumi_users, dbUsers, dbBadges, authUsers, now>>

\* UserStorageModel.addBadge (badgeEmoji = '' by default)
AddBadge(username, badgeName, emojiArg) ==
    LET badgeEmoji == DefaultParam(emojiArg, "")
        rec == [op |-> "addBadge", user |-> username, name |-> badgeName,
                emoji |-> badgeEmoji]
    IN
    /\ Call
    /\ UNCHANGED <<txns, pending, config, session, currentUserId, dbUsers, authUsers, now>>
    /\ IF UseSupabase /\ ~UseLocalOnly
       THEN \E t \in BadgeNets :
            \E r \in {SbAddBadge(username, badgeName, badgeEmoji, t[1], t[2], t[3])} :
              /\ cache' = r.cache
              /\ writtenAt' = r.w
              /\ dbBadges' = r.rows
              /\ lumi_users' = r.blob
              /\ log' = Done(rec @@ [ok |-> r.ok, threw |-> r.threw,
                                      calls |-> r.calls, idHit |-> r.idHit,
                                      idAge |-> r.idAge, path |-> r.path,
                                      saveFailed |-> r.threw,
                                      wrote |-> r.blob # lumi_users])
       ELSE \E quota1 \in BOOLEAN, quota2 \in BOOLEAN :
            \E r \in {LocalAddBadge(lumi_users, username, badgeName, badgeEmoji,
                                    quota1, quota2)} :
              /\ lumi_users' = r.blob
              /\ log' = Done(rec @@ [ok |-> r.ok, threw |-> r.threw,
                                      path |-> "local", saveFailed |-> ~r.ok,
                                      wrote |-> r.blob # lumi_users])
              /\ UNCHANGED <<cache, writtenAt, dbBadges>>

\* the read both UserStorageModel.getBadges and getBadgeCount perform
FacadeRead(op, username) ==
    /\ Call
    /\ UNCHANGED <<txns, pending, config, session, lumi_users, currentUserId, dbUsers,
                   dbBadges, authUsers, now>>
    /\ IF UseSupabase /\ ~UseLocalOnly
       THEN \E t \in ReadNets :
            \E r \in {SbGetBadges(username, t[1], t[2])} :
              /\ cache' = r.cache
              /\ writtenAt' = r.w
              /\ log' = Done([op |-> op, user |-> username, ok |-> TRUE,
                               list |-> r.list, count |-> Len(r.list),
                               calls |-> r.calls, hit |-> r.hit, age |-> r.age,
                               idHit |-> r.idHit, idAge |-> r.idAge,
                               path |-> r.path])
       ELSE \E badges \in {LocalGetBadges(lumi_users, username)} :
              /\ log' = Done([op |-> op, user |-> username, ok |-> TRUE,
                               list |-> badges, count |-> Len(badges),
                               path |-> "local"])
              /\ UNCHANGED <<cache, writtenAt>>

\* UserStorageModel.getBadges
GetBadges(username) == FacadeRead("getBadges", username)

\* UserStorageModel.getBadgeCount
GetBadgeCount(username) == FacadeRead("getBadgeCount", username)

\* SupabaseStorageModel.getUserId, called directly
StorageGetUserId(username) ==
    /\ Call
    /\ config.enabled
    /\ \E net \in Net :
       \E g \in {GetUserId(cache, writtenAt, username, net)} :
         /\ cache' = g.cache
         /\ writtenAt' = g.w
         /\ log' = Done([op |-> "storage.getUserId", user |-> username,
                          ok |-> g.id # 0, id |-> g.id, calls |-> g.calls,
                          idHit |-> g.idHit, idAge |-> g.idAge, path |-> "remote"])
    /\ UNCHANGED <<txns, pending, config, session, lumi_users, currentUserId, dbUsers,
                   dbBadges, authUsers, now>>

\* UserStorageModel.createUser, called directly
FacadeCreateUser(username) ==
    /\ Call
    /\ \E quotaOk \in BOOLEAN :
       \E c \in {CreateUser(lumi_users, username, quotaOk)} :
         /\ lumi_users' = c.blob
         /\ log' = Done([op |-> "createUser", user |-> username, ok |-> c.ok,
                          path |-> "local", saveFailed |-> ~c.ok,
                          wrote |-> c.blob # lumi_users])
    /\ UNCHANGED <<txns, pending, config, session, currentUserId, cache, dbUsers, dbBadges,
                   authUsers, now, writtenAt>>

----------------------------------------------------------------------------
(* Actions: DataMigrationUtil, constructed over the facade and its remote *)
(* store; every await of its methods is a step                            *)

\* the state a call found, kept to tell what the call changed
Snapshot(blob, users, rows, accounts, sess, userId, c) ==
    [LocalStore |-> blob, remote |-> <<users, rows, accounts>>,
     session |-> <<sess, userId>>, cache |-> c]
Touched(before, after) == {k \in DOMAIN before : before[k] # after[k]}

\* typeof badge === 'string' ? badge : badge.name
MigrationName(badge) ==
    IF "legacy" \in DOMAIN badge THEN badge.legacy ELSE badge.name

\* typeof badge === 'string' ? star : (badge.emoji || star)
MigrationEmoji(badge) ==
    IF "legacy" \in DOMAIN badge THEN "star"
    ELSE IF badge.emoji = "" THEN "star" ELSE badge.emoji

\* the return statements of migrateUserData
MigrationReturn(p, ok, after) ==
    Done([op |-> "migrateUserData", user |-> p.user, ok |-> ok,
          migratedCount |-> p.migratedCount, failedCount |-> p.failedCount,
          count |-> Len(p.badges), calls |-> p.calls, attempts |-> p.attempts,
          path |-> p.path,
          message |-> IF ok THEN "Successfully migrated" ELSE "Migration failed",
          touched |-> Touched(p.before, after)])

\* migrateUserData(username) up to the return of supabaseStorage.setCurrentUser
MigrateUserData(username) ==
    LET users == GetAllUsers(lumi_users)
        before == Snapshot(lumi_users, dbUsers, dbBadges, authUsers, session,
                           currentUserId, cache)
        start == [NoPending EXCEPT !.op = "migrateUserData", !.user = username,
                                   !.before = before]
    IN
    /\ Call
    /\ pending = NoPending
    /\ UNCHANGED <<txns, config, lumi_users, cache, dbBadges, now, writtenAt>>
    /\ IF username \notin DOMAIN users
       THEN /\ log' = Done([op |-> "migrateUserData", user |-> username,
                             ok |-> TRUE, message |-> "No data to migrate"])
            /\ UNCHANGED <<pending, session, currentUserId, dbUsers, authUsers>>
       ELSE IF ~config.enabled
       THEN \* this.supabaseStorage is null: the TypeError is caught
            /\ log' = MigrationReturn(start, FALSE, before)
            /\ UNCHANGED <<pending, session, currentUserId, dbUsers, authUsers>>
       ELSE \E t \in LoginAnswers(username, Undefined) :
            \E r \in {SbSetCurrentUser(username, Undefined, t[1], t[2], t[3])} :
            \E p \in {[start EXCEPT !.badges = users[username].badges,
                                    !.calls = r.calls, !.path = r.path]} :
            \E after \in {Snapshot(lumi_users, r.db, dbBadges, r.accounts,
                                   r.session, r.userId, cache)} :
              /\ session' = r.session
              /\ currentUserId' = r.userId
              /\ dbUsers' = r.db
              /\ authUsers' = r.accounts
              /\ IF ~r.ok
                 THEN log' = MigrationReturn(p, FALSE, after) /\ UNCHANGED pending
                 ELSE IF p.badges = <<>>
                 THEN log' = MigrationReturn(p, TRUE, after) /\ UNCHANGED pending
                 ELSE pending' = p /\ UNCHANGED log

\* one turn of the loop of migrateUserData: supabaseStorage.addBadge of the
\* next badge, and the return after the last one
MigrateBadge ==
    LET badge == pending.badges[pending.next]
        badgeName == MigrationName(badge)
        badgeEmoji == MigrationEmoji(badge)
    IN
    /\ pending.op = "migrateUserData"
    /\ UNCHANGED <<txns, config, session, currentUserId, dbUsers, authUsers, now>>
    /\ \E t \in BadgeNets :
       \E r \in {SbAddBadge(pending.user, badgeName, badgeEmoji, t[1], t[2], t[3])} :
       \E p \in {[pending EXCEPT
                     !.next = @ + 1,
                     !.migratedCount = IF r.ok THEN @ + 1 ELSE @,
                     !.failedCount = IF ~r.ok /\ ~r.threw THEN @ + 1 ELSE @,
                     !.calls = @ \o r.calls,
                     !.attempts = Append(@, badgeName)]} :
       \E after \in {Snapshot(r.blob, dbUsers, r.rows, authUsers, session,
                              currentUserId, r.cache)} :
         /\ cache' = r.cache
         /\ writtenAt' = r.w
         /\ dbBadges' = r.rows
         /\ lumi_users' = r.blob
         /\ IF r.threw
            THEN \* the error of addBadge reaches the catch block
                 log' = MigrationReturn(p, FALSE, after) /\ pending' = NoPending
            ELSE IF p.next > Len(p.badges)
            THEN log' = MigrationReturn(p, TRUE, after) /\ pending' = NoPending
            ELSE pending' = p /\ UNCHANGED log

\* verifyMigration(username) up to the return of userStorage.getBadges
VerifyMigration(username) ==
    LET before == Snapshot(lumi_users, dbUsers, dbBadges, authUsers, session,
                           currentUserId, cache)
        start == [NoPending EXCEPT !.op = "verifyMigration", !.user = username,
                                   !.before = before]
    IN
    /\ Call
    /\ pending = NoPending
    /\ UNCHANGED <<txns, config, session, lumi_users, currentUserId, dbUsers,
                   dbBadges, authUsers, now, log>>
    /\ IF UseSupabase /\ ~UseLocalOnly
       THEN \E t \in ReadNets :
            \E r \in {SbGetBadges(username, t[1], t[2])} :
              /\ cache' = r.cache
              /\ writtenAt' = r.w
              /\ pending' = [start EXCEPT !.localList = r.list,
                                          !.calls = r.calls, !.path = r.path]
       ELSE /\ pending' = [start EXCEPT
                             !.localList = LocalGetBadges(lumi_users, username),
                             !.path = "local"]
            /\ UNCHANGED <<cache, writtenAt>>

\* the rest of verifyMigration: supabaseStorage.getBadges and the return
VerifyReturn ==
    /\ pending.op = "verifyMigration"
    /\ pending' = NoPending
    /\ UNCHANGED <<txns, config, session, lumi_users, currentUserId, dbUsers,
                   dbBadges, authUsers, now>>
    /\ IF ~config.enabled
       THEN \* this.supabaseStorage is null: the TypeError is caught
            /\ log' = Done([op |-> "verifyMigration", user |-> pending.user,
                             ok |-> FALSE, threw |-> TRUE,
                             path |-> pending.path,
                             message |-> "Verification failed"])
            /\ UNCHANGED <<cache, writtenAt>>
       ELSE \E t \in ReadNets :
            \E r \in {SbGetBadges(pending.user, t[1], t[2])} :
            \E after \in {Snapshot(lumi_users, dbUsers, dbBadges, authUsers,
                                   session, currentUserId, r.cache)} :
              /\ cache' = r.cache
              /\ writtenAt' = r.w
              /\ log' = Done([op |-> "verifyMigration", user |-> pending.user,
                               ok |-> Len(pending.localList) = Len(r.list),
                               localCount |-> Len(pending.localList),
                               supabaseCount |-> Len(r.list),
                               calls |-> pending.calls \o r.calls,
                               path |-> pending.path, hit |-> r.hit,
                               message |-> IF Len(pending.localList) = Len(r.list)
                                           THEN "Migration verified successfully"
                                           ELSE "Mismatch",
                               touched |-> Touched(pending.before, after)])

----------------------------------------------------------------------------
(* Actions: SupabaseStorageModel.getBadges step by step, other calls running *)
(* while it awaits the answer of its badge query                            *)

\* getBadges(username) up to the await of the badge query: the cache has no
\* valid list, getUserId finds the id, the query is sent and the remote store
\* answers it (net2) from the rows it holds now
GetBadgesQuery(username) ==
    /\ Call
    /\ pending = NoPending
    /\ UseSupabase /\ ~UseLocalOnly
    /\ config.client
    /\ ~(IsCacheValid(cache) /\ Cached(cache, "badges", username))
    /\ \E t \in ReadNets :
       \E g \in {GetUserId(cache, writtenAt, username, t[1])} :
         /\ g.id # 0
         /\ cache' = g.cache
         /\ writtenAt' = g.w
         /\ pending' = [NoPending EXCEPT
                          !.op = "getBadges", !.user = username,
                          !.begun = Len(log), !.answer = t[2],
                          !.badges = IF t[2] = "ok"
                                     THEN SelectBadges(dbBadges, g.id) ELSE <<>>,
                          !.calls = Append(g.calls, <<"badges.select", t[2]>>),
                          !.idHit = g.idHit, !.idAge = g.idAge]
    /\ UNCHANGED <<txns, config, session, lumi_users, currentUserId, dbUsers,
                   dbBadges, authUsers, now, log>>

\* getBadges resumes with the answer: data.map, updateCache and return, or the
\* catch block
GetBadgesResume ==
    LET rec == [op |-> "getBadges", user |-> pending.user, ok |-> TRUE,
                calls |-> pending.calls, idHit |-> pending.idHit,
                idAge |-> pending.idAge, begun |-> pending.begun]
    IN
    /\ pending.op = "getBadges"
    /\ pending' = NoPending
    /\ IF pending.answer = "ok"
       THEN /\ cache' = UpdateCache(cache, "badges", pending.user, pending.badges)
            /\ writtenAt' = Stamp(writtenAt, "badges", pending.user)
            /\ log' = Done(rec @@ [list |-> pending.badges,
                                    count |-> Len(pending.badges),
                                    path |-> "remote"])
       ELSE \E badges \in {IF config.fallbackToLocalStorage
                           THEN GetBadgesFromLocalStorage(lumi_users, pending.user)
                           ELSE <<>>} :
              /\ log' = Done(rec @@ [list |-> badges, count |-> Len(badges),
                                      path |-> IF config.fallbackToLocalStorage
                                               THEN "fallback" ELSE "failed"])
              /\ UNCHANGED <<cache, writtenAt>>
    /\ UNCHANGED <<txns, config, session, lumi_users, currentUserId, dbUsers,
                   dbBadges, authUsers, now>>

\* badge operations of 'a' on the facade, a getBadges possibly in flight
NextAsync ==
    \/ \E b \in BadgeArgs : AddBadge(<<"a">>, b[1], b[2])
    \/ GetBadges(<<"a">>)
    \/ GetBadgesQuery(<<"a">>)
    \/ GetBadgesResume

SpecAsync == Init /\ [][NextAsync]_vars

----------------------------------------------------------------------------
(* Actions: a facade operation and the answer of the remote store it waits   *)
(* for; the handlers await each remote call with no timer beside it          *)

\* the handler of op, routed to the remote store, sends its first remote call
\* and awaits the answer
RemoteAwait(op, args) ==
    /\ Call
    /\ pending = NoPending
    /\ UseSupabase
    /\ CASE op = "setCurrentUser" -> ~IsBlank(args[1]) /\ ~IsBlank(args[2])
         [] op = "addBadge" -> ~UseLocalOnly
         [] op = "getBadges" ->
              /\ ~UseLocalOnly
              /\ ~(IsCacheValid(cache) /\ Cached(cache, "badges", args[1]))
    /\ pending' = [NoPending EXCEPT !.op = op, !.args = args,
                                    !.answer = "awaited", !.begun = Len(log)]
    /\ UNCHANGED <<txns, config, session, lumi_users, currentUserId, cache,
                   dbUsers, dbBadges, authUsers, now, writtenAt, log>>

\* the remote store answers the call the handler awaits
RemoteAnswer ==
    /\ pending.answer = "awaited"
    /\ pending' = [pending EXCEPT !.answer = "arrived"]
    /\ UNCHANGED <<txns, config, session, lumi_users, currentUserId, cache,
                   dbUsers, dbBadges, authUsers, now, writtenAt, log>>

\* the handler resumes with the answer and runs to its return
RemoteResume ==
    LET args == pending.args IN
    /\ pending.answer = "arrived"
    /\ pending' = NoPending
    /\ UNCHANGED <<txns, config, now>>
    /\ CASE pending.op = "setCurrentUser" ->
              \E t \in LoginAnswers(args[1], args[2]) :
              \E r \in {SbSetCurrentUser(Trim(args[1]), args[2], t[1], t[2], t[3])} :
                /\ session' = r.session
                /\ currentUserId' = r.userId
                /\ dbUsers' = r.db
                /\ authUsers' = r.accounts
                /\ log' = Done([op |-> "setCurrentUser", raw |-> args[1],
                                 cred |-> TRUE, user |-> Trim(args[1]),
                                 ok |-> r.ok, calls |-> r.calls, path |-> r.path,
                                 begun |-> pending.begun])
                /\ UNCHANGED <<lumi_users, cache, dbBadges, writtenAt>>
         [] pending.op = "addBadge" ->
              \E t \in BadgeNets :
              \E r \in {SbAddBadge(args[1], args[2], DefaultParam(args[3], ""),
                                    t[1], t[2], t[3])} :
                /\ cache' = r.cache
                /\ writtenAt' = r.w
                /\ dbBadges' = r.rows
                /\ lumi_users' = r.blob
                /\ log' = Done([op |-> "addBadge", user |-> args[1],
                                 name |-> args[2],
                                 emoji |-> DefaultParam(args[3], ""),
                                 ok |-> r.ok, threw |-> r.threw,
                                 calls |-> r.calls, idHit |-> r.idHit,
                                 idAge |-> r.idAge, path |-> r.path,
                                 saveFailed |-> r.threw,
                                 wrote |-> r.blob # lumi_users,
                                 begun |-> pending.begun])
                /\ UNCHANGED <<session, currentUserId, dbUsers, authUsers>>
         [] pending.op = "getBadges" ->
              \E t \in ReadNets :
              \E r \in {SbGetBadges(args[1], t[1], t[2])} :
                /\ cache' = r.cache
                /\ writtenAt' = r.w
                /\ log' = Done([op |-> "getBadges", user |-> args[1],
                                 ok |-> TRUE, list |-> r.list,
                                 count |-> Len(r.list), calls |-> r.calls,
                                 hit |-> r.hit, age |-> r.age,
                                 idHit |-> r.idHit, idAge |-> r.idAge,
                                 path |-> r.path, begun |-> pending.begun])
                /\ UNCHANGED <<session, lumi_users, currentUserId, dbUsers,
                               dbBadges, authUsers>>

\* the facade operations that use the remote store, one at a time
NextStall ==
    \/ \E p \in Passwords : RemoteAwait("setCurrentUser", <<<<"a">>, p>>)
    \/ \E b \in BadgeArgs : RemoteAwait("addBadge", <<<<"a">>, b[1], b[2]>>)
    \/ RemoteAwait("getBadges", <<<<"a">>>>)
    \/ RemoteAnswer
    \/ RemoteResume

\* the event loop runs a continuation whose promise has settled; nothing
\* obliges the remote store to answer
SpecStall == Init /\ [][NextStall]_vars /\ WF_vars(RemoteResume)

\* logout while a setCurrentUser or a getBadges awaits the remote store
NextLogoutRace ==
    \/ \E p \in Passwords : RemoteAwait("setCurrentUser", <<<<"a">>, p>>)
    \/ RemoteAwait("getBadges", <<<<"a">>>>)
    \/ RemoteAnswer
    \/ RemoteResume
    \/ Logout

SpecLogoutRace == Init /\ [][NextLogoutRace]_vars

\* badge operations on the facade and lookups, as time passes
Next ==
    \/ Tick
    \/ \E u \in Names, b \in BadgeArgs : AddBadge(u, b[1], b[2])
    \/ \E u \in Names : GetBadges(u)
    \/ \E u \in Names : StorageGetUserId(u)
    \/ Logout

Spec == Init /\ [][Next]_vars

\* a session on the facade: logins by name, badge operations, logout
NextSession ==
    \/ \E u \in Names, p \in {Undefined} \cup Passwords : SetCurrentUser(u, p)
    \/ \E u \in Names, b \in BadgeArgs : AddBadge(u, b[1], b[2])
    \/ \E u \in Names : GetBadges(u)
    \/ \E u \in Names : GetBadgeCount(u)
    \/ Logout

SpecSession == Init /\ [][NextSession]_vars

\* logins with every form of the arguments, through the facade and directly
NextLogin ==
    \/ \E u \in RawUsernames, p \in PasswordArgs : SetCurrentUser(u, p)
    \/ \E u \in RawUsernames, p \in PasswordArgs : StorageSetCurrentUser(u, p)
    \/ Logout

SpecLogin == Init /\ [][NextLogin]_vars

\* a password nobody types in the behaviours checked: the one 'a' registered
\* with on an earlier visit
EarlierPassword == <<"q">>

\* the program starts when 'a' may hold an account of the remote store already
InitRegistered ==
    /\ config \in {c \in Configs : (c.client => c.enabled)
                                   /\ (~c.enabled => c.fallbackToLocalStorage)}
    /\ session = LoggedOut
    /\ lumi_users \in {[state |-> st, users |-> EmptyMap] : st \in {"missing", "corrupt"}}
    /\ currentUserId = 0
    /\ cache = EmptyCache
    /\ dbUsers \in {{}, {[id |-> Uuid(n), username |-> n] : n \in Names}}
    /\ dbBadges = <<>>
    /\ authUsers \in {EmptyMap, Put(EmptyMap, Email(<<"a">>), EarlierPassword)}
    /\ now = 1
    /\ writtenAt = NoTimes
    /\ log = <<>>
    /\ pending = NoPending
    /\ txns = NoTxns

SpecRegistered == InitRegistered /\ [][NextLogin]_vars

\* the facade's writing methods with any arguments, and its reads
NextAnyArgs ==
    \/ \E u \in AnyUsernames, b \in AnyBadgeArgs : AddBadge(u, b[1], b[2])
    \/ \E u \in AnyUsernames : FacadeCreateUser(u)
    \/ \E u \in AnyUsernames : GetBadges(u)

SpecAnyArgs == Init /\ [][NextAnyArgs]_vars

----------------------------------------------------------------------------
(* Actions: the remote store running get_or_create_user for several clients; *)
(* under READ COMMITTED each statement of the function sees the rows         *)
(* committed before it started                                              *)

\* the argument checks and SELECT id INTO v_user_id ... WHERE username = ...
TxnSelect(t, p_username) ==
    LET name == Trim(p_username) IN
    /\ txns[t].pc = "idle"
    /\ txns' = [txns EXCEPT ![t] =
                  IF name = <<>> \/ Len(name) > MaxUsernameLen
                  THEN [NoTxn EXCEPT !.pc = "done", !.p_username = p_username]
                  ELSE [NoTxn EXCEPT !.pc = "selected",
                                     !.p_username = p_username,
                                     !.v_user_id = SelectUserId(dbUsers, name)]]
    /\ UNCHANGED <<config, session, lumi_users, currentUserId, cache, dbUsers,
                   dbBadges, authUsers, now, writtenAt, log, pending>>

\* IF v_user_id IS NULL THEN INSERT ... ELSE UPDATE ... END IF; RETURN: the
\* INSERT of a username another call has inserted meanwhile violates UNIQUE
TxnWrite(t) ==
    LET name == Trim(txns[t].p_username)
        done == [txns[t] EXCEPT !.pc = "done"]
    IN
    /\ txns[t].pc = "selected"
    /\ IF txns[t].v_user_id # 0
       THEN /\ txns' = [txns EXCEPT ![t] =
                          [done EXCEPT !.ok = TRUE, !.id = txns[t].v_user_id]]
            /\ UNCHANGED dbUsers
       ELSE IF SelectUserId(dbUsers, name) # 0 \/ HasSpace(name)
       THEN /\ txns' = [txns EXCEPT ![t] = done]
            /\ UNCHANGED dbUsers
       ELSE /\ txns' = [txns EXCEPT ![t] =
                          [done EXCEPT !.ok = TRUE, !.id = Uuid(name)]]
            /\ dbUsers' = dbUsers \cup {[id |-> Uuid(name), username |-> name]}
    /\ UNCHANGED <<config, session, lumi_users, currentUserId, cache, dbBadges,
                   authUsers, now, writtenAt, log, pending>>

\* get_or_create_user called by several clients at once
NextRpc ==
    \/ \E t \in 1..MaxTxns, u \in Names : TxnSelect(t, u)
    \/ \E t \in 1..MaxTxns : TxnWrite(t)

SpecRpc == Init /\ [][NextRpc]_vars

\* a device that earned up to MaxLocalBadges badges for 'a' in local mode
LocalBlobs ==
    {[state |-> "missing", users |-> EmptyMap]}
    \cup {[state |-> "json",
           users |-> Put(EmptyMap, <<"a">>, [badges |-> list])] :
             list \in {<<>>,
                       <<[name |-> "Star", emoji |-> ""]>>,
                       <<[name |-> "Star", emoji |-> ""],
                         [name |-> "Moon", emoji |-> "trophy"]>>}}

InitMigration ==
    /\ config \in {c \in Configs : (c.client => c.enabled)
                                   /\ (~c.enabled => c.fallbackToLocalStorage)}
    /\ session = LoggedOut
    /\ lumi_users \in LocalBlobs
    /\ currentUserId = 0
    /\ cache = EmptyCache
    /\ dbUsers \in {{}, {[id |-> Uuid(n), username |-> n] : n \in Names}}
    /\ dbBadges = <<>>
    /\ authUsers = EmptyMap
    /\ now = 1
    /\ writtenAt = NoTimes
    /\ log = <<>>
    /\ pending = NoPending
    /\ txns = NoTxns

\* a call may start: none is suspended and the behaviour has room for it
MigrationCall == pending = NoPending /\ Len(log) < MaxMigrationCalls

\* the migration of 'a', between facade calls
NextMigration ==
    \/ MigrationCall /\ \E b \in BadgeArgs : AddBadge(<<"a">>, b[1], b[2])
    \/ MigrationCall /\ SetCurrentUser(<<"a">>, Undefined)
    \/ MigrationCall /\ MigrateUserData(<<"a">>)
    \/ MigrateBadge
    \/ MigrationCall /\ \E u \in Names : VerifyMigration(u)
    \/ VerifyReturn

SpecMigration == InitMigration /\ [][NextMigration]_vars

----------------------------------------------------------------------------
(* Properties: vocabulary *)

\* the call `what` was issued by the handler of rec
Made(rec, what) == \E k \in DOMAIN rec.calls : rec.calls[k][1] = what

\* the call `what` was issued and answered `how`
Answered(rec, what, how) == \E k \in DOMAIN rec.calls : rec.calls[k] = <<what, how>>

\* the call `what` was issued and came back with a transport error
Failed(rec, what) ==
    \E k \in DOMAIN rec.calls :
        rec.calls[k][1] = what /\ rec.calls[k][2] \in {"fail", "lost"}

\* no remote call of the handler of rec came back with a transport error
Healthy(rec) ==
    \A k \in DOMAIN rec.calls : rec.calls[k][2] \notin {"fail", "lost", "error"}

\* the facade routed the call of rec to the remote store
RemoteRouted(rec) == rec.path # "local"

\* badge (n, e) is the last / an element of the list
EndsWith(list, n, e) ==
    list # <<>> /\ list[Len(list)].name = n /\ list[Len(list)].emoji = e
Holds(list, n, e) ==
    \E k \in DOMAIN list : list[k].name = n /\ list[k].emoji = e

\* the badge list LocalStore holds for u, read off the blob
LocalList(u) ==
    IF lumi_users.state = "json" /\ u \in DOMAIN lumi_users.users
    THEN lumi_users.users[u].badges
    ELSE <<>>

BadgeOps == {"addBadge", "getBadges", "getBadgeCount"}

\* no addBadge and no logout among the calls strictly between i and j
NoWriteBetween(i, j) ==
    \A k \in (i + 1)..(j - 1) : log[k].op \notin {"addBadge", "logout"}

\* t is raw without its leading and trailing blanks
IsTrimOf(t, raw) ==
    /\ t # <<>>
    /\ t[1] # SP
    /\ t[Len(t)] # SP
    /\ \E i \in 0..Len(raw), j \in 0..Len(raw) : raw = Pad(i) \o t \o Pad(j)

\* raw is a typed username made of blanks only (possibly none)
OnlyBlanks(raw) == raw # Undefined /\ \A k \in DOMAIN raw : raw[k] = SP

----------------------------------------------------------------------------
(* Properties: claims *)

\* C1: when addBadge(u, n, e) returns success and getBadges(u) is called
\* immediately after it, the returned list is non-empty and ends with (n, e),
\* on the local path and on the remote path alike (stated for the runs in which
\* no remote call of the two handlers fails).
C1_RoundTrip ==
    \A i \in 1..(Len(log) - 1) :
        ( /\ log[i].op = "addBadge" /\ log[i].ok /\ Healthy(log[i])
          /\ log[i + 1].op = "getBadges" /\ Healthy(log[i + 1])
          /\ log[i + 1].user = log[i].user
          /\ log[i + 1].at = log[i].at )
        => EndsWith(log[i + 1].list, log[i].name, log[i].emoji)

\* C2: a badge list of u that was cached before a successful addBadge(u, ...)
\* is not served after it: the next getBadges(u), when none of its remote calls
\* fails, is not answered from the cache and returns a list that contains the
\* new badge.
C2_WriteInvalidates ==
    \A i \in 2..(Len(log) - 1) :
        ( /\ log[i - 1].op = "getBadges" /\ log[i - 1].user = log[i].user
          /\ Answered(log[i - 1], "badges.select", "ok")
          /\ log[i].op = "addBadge" /\ log[i].ok
          /\ log[i + 1].op = "getBadges" /\ log[i + 1].user = log[i].user
          /\ Healthy(log[i + 1]) )
        => ( /\ ~log[i + 1].hit
             /\ Holds(log[i + 1].list, log[i].name, log[i].emoji) )

C4_LocalRouting ==
    [][ ( /\ session.use_local_only
          /\ log' # log
          /\ last'.op \in BadgeOps )
        => ( /\ last'.calls = <<>>
             /\ last'.path = "local"
             /\ dbUsers' = dbUsers
             /\ dbBadges' = dbBadges
             /\ cache' = cache
             /\ session' = session
             /\ last'.op # "addBadge" =>
                  ( /\ last'.list = LocalList(last'.user)
                    /\ last'.count = Len(LocalList(last'.user))
                    /\ lumi_users' = lumi_users ) ) ]_vars

C4_Witness ==
    /\ UseSupabase
    /\ session.use_local_only
    /\ Len(log) = 3
    /\ log[1].op = "setCurrentUser" /\ log[1].path = "fallback"
    /\ Made(log[1], "auth.signInWithPassword")
    /\ log[2].op = "addBadge" /\ log[2].ok /\ log[2].path = "local"
    /\ log[3].op = "getBadges" /\ log[3].path = "local"
    /\ EndsWith(log[3].list, log[2].name, log[2].emoji)

\* C5: getBadges and getUserId never return a cached value that was written
\* to the cache more than cacheTimeout ago.
C5_NoStaleRead ==
    \A i \in DOMAIN log :
        log[i].op \in {"getBadges", "storage.getUserId"}
        => ( /\ log[i].hit => log[i].age <= CacheTimeout
             /\ log[i].idHit => log[i].idAge <= CacheTimeout )

C8_ReadFallsBack ==
    ( /\ last.op = "getBadges" /\ RemoteRouted(last)
      /\ config.fallbackToLocalStorage
      /\ (Failed(last, "users.select") \/ Failed(last, "badges.select")) )
    => last.list = LocalList(last.user)

\* C9 as stated: for every username whose trimmed form is non-empty, in every
\* configuration, after setCurrentUser(username, credential) completes,
\* getCurrentUser() returns the trimmed username.
C9_MarkerAlways ==
    ( /\ last.op = "setCurrentUser"
      /\ last.raw # Undefined
      /\ ~OnlyBlanks(last.raw) )
    => IsTrimOf(GetCurrentUser, last.raw)

\* C9 amended: whenever setCurrentUser(username, credential) returns success,
\* getCurrentUser() returns the trimmed username.
C9_MarkerOnSuccess ==
    (IsLogin(last) /\ last.ok) => IsTrimOf(GetCurrentUser, last.raw)

C9_Witness ==
    /\ last.op = "setCurrentUser"
    /\ last.raw = <<SP, "a", SP>>
    /\ last.ok
    /\ last.path = "remote"
    /\ GetCurrentUser = <<"a">>

\* C10: setCurrentUser with an empty or whitespace-only username returns
\* failure, issues no remote call, writes nothing to LocalStore and does not set
\* the session marker.
C10_BlankRejected ==
    [][ ( /\ log' # log
          /\ last'.op = "setCurrentUser"
          /\ OnlyBlanks(last'.raw) )
        => ( /\ ~last'.ok
             /\ last'.calls = <<>>
             /\ lumi_users' = lumi_users
             /\ session' = session
             /\ dbUsers' = dbUsers
             /\ authUsers' = authUsers
             /\ currentUserId' = currentUserId ) ]_vars

C10_Witness ==
    /\ Len(log) = 1
    /\ last.op = "setCurrentUser"
    /\ last.raw = <<SP, SP>>
    /\ last.cred
    /\ UseSupabase
    /\ ~last.ok
    /\ GetCurrentUser = Null
    /\ lumi_users.state # "json"

\* the call of rec ended on the local-only path: the facade's own local branch
\* or the catch blocks of the remote setCurrentUser
OnFallbackPath(rec) == rec.ok /\ rec.path \in {"local", "fallback"}

\* C11: whenever setCurrentUser completes on the fallback path (remote store
\* unavailable, disabled, or the remote call failed with fallback permitted),
\* the trimmed username exists as a record in LocalStore when the call returns;
\* stated for the calls whose LocalStore write, if any, was accepted.
C11_FallbackCreatesUser ==
    ( /\ last.op = "setCurrentUser"
      /\ OnFallbackPath(last)
      /\ ~last.saveFailed )
    => ( /\ lumi_users.state = "json"
         /\ last.user \in DOMAIN lumi_users.users )

\* the remote store holds a users row for username u
RemoteUser(u) == \E row \in dbUsers : row.username = u

\* C12: when the remote store is configured, enabled and reachable and the
\* facade's setCurrentUser is called without a credential, the user is resolved
\* or created in the remote store by the anonymous path and the session is not
\* marked local-only.
C12_AnonymousRemoteLogin ==
    ( /\ last.op = "setCurrentUser"
      /\ UseSupabase
      /\ ~last.cred
      /\ last.path # "rejected"
      /\ Healthy(last) )
    => ( /\ last.ok
         /\ Answered(last, "rpc.get_or_create_user", "ok")
         /\ RemoteUser(last.user)
         /\ ~session.use_local_only )

\* result.key as JavaScript reads it off the value a handler returned: a
\* property read on a boolean yields undefined
PropertyOf(result, key) ==
    IF result \in BOOLEAN THEN Undefined ELSE result[key]

\* C13: setCurrentUser returns a result with a success flag and a usedFallback
\* flag, and usedFallback is true exactly when the session was established on
\* the local-only path.
C13_UsedFallbackFlag ==
    (last.op = "setCurrentUser" /\ last.path # "rejected")
    => ( /\ PropertyOf(last.ok, "success") # Undefined
         /\ PropertyOf(last.ok, "usedFallback") # Undefined
         /\ PropertyOf(last.ok, "usedFallback") = OnFallbackPath(last) )

\* a remote call of the handler of rec failed while the facade had routed it to
\* the remote store
RemoteCallFailed(rec) ==
    /\ rec.op \in {"addBadge", "setCurrentUser"}
    /\ RemoteRouted(rec)
    /\ ~Healthy(rec)

\* C14: with the remote store in use and fallback not permitted, when the
\* remote call fails, addBadge returns false and setCurrentUser returns failure,
\* and in both cases LocalStore and the session marker are left as they were
\* before the call.
C14_NoFallbackFails ==
    [][ ( /\ log' # log
          /\ UseSupabase
          /\ ~config.fallbackToLocalStorage
          /\ RemoteCallFailed(last') )
        => ( /\ ~last'.ok
             /\ ~last'.threw
             /\ lumi_users' = lumi_users
             /\ session' = session ) ]_vars

C14_Witness ==
    /\ UseSupabase
    /\ ~config.fallbackToLocalStorage
    /\ Len(log) = 2
    /\ log[1].op = "setCurrentUser"
    /\ Failed(log[1], "rpc.get_or_create_user")
    /\ ~log[1].ok
    /\ log[2].op = "addBadge"
    /\ Failed(log[2], "badges.insert")
    /\ ~log[2].ok
    /\ GetCurrentUser = Null
    /\ lumi_users.state = "missing"

\* C15: getUserId keeps 'not found' apart from 'call failed': a transport
\* failure of the lookup is surfaced to the caller as a failure, not reported as
\* an absent user.
C15_LookupFailureSurfaced ==
    \A i \in DOMAIN log : \A j \in DOMAIN log :
        ( /\ log[i].op = "storage.getUserId"
          /\ log[j].op = "storage.getUserId"
          /\ Answered(log[i], "users.select", "notfound")
          /\ Failed(log[j], "users.select") )
        => <<log[i].id, log[i].threw>> # <<log[j].id, log[j].threw>>

\* C16: when the LocalStore write fails (for example on quota), addBadge on
\* the local path and on the remote-fallback path returns false without
\* throwing, whether or not the user already exists, and the persisted mapping
\* is unchanged.
C16_WriteFailureReturnsFalse ==
    ( /\ last.op = "addBadge"
      /\ last.saveFailed )
    => ( /\ ~last.ok
         /\ ~last.threw
         /\ ~last.wrote )

\* C17: addBadge with an empty username or an empty badge name is rejected
\* as a failed result before any backend call: nothing is inserted remotely and
\* nothing is written locally; stated for the calls during which neither the
\* remote store nor the LocalStore write failed.
C17_EmptyArgsRejected ==
    ( /\ last.op = "addBadge"
      /\ (last.user = <<>> \/ last.name = "")
      /\ Healthy(last)
      /\ ~last.saveFailed )
    => ( /\ ~last.ok
         /\ ~last.threw
         /\ last.calls = <<>>
         /\ ~last.wrote
         /\ \A k \in DOMAIN dbBadges : dbBadges[k].badge_name # "" )

\* an earlier call stored a badge for u in LocalStore, so u has a record there
HasLocalRecord(u, before) ==
    \E i \in 1..(before - 1) :
        /\ log[i].op = "addBadge"
        /\ log[i].user = u
        /\ log[i].ok
        /\ log[i].path \in {"local", "fallback"}

\* C18: createUser(username) on a username that already exists is a no-op that
\* returns success: the existing record, its badges included, is unchanged;
\* stated for the calls whose LocalStore write, if any, was accepted.
C18_CreateExistingNoOp ==
    ( /\ last.op = "createUser"
      /\ last.user \in Names
      /\ HasLocalRecord(last.user, Len(log))
      /\ ~last.saveFailed )
    => ( /\ last.ok
         /\ ~last.wrote )

IsPrefix(s, t) == Len(s) <= Len(t) /\ SubSeq(t, 1, Len(s)) = s

\* the usernames LocalStore holds a record for
LocalUsers == IF lumi_users.state = "json" THEN DOMAIN lumi_users.users ELSE {}

\* C19: across any sequence of facade operations with an uncorrupted
\* LocalStore, the only change ever made to LocalStore badge data is that a
\* successful local addBadge(u, ...) appends exactly one badge to u's sequence:
\* every earlier state of a user's sequence is a prefix of every later state, no
\* other user's sequence changes, and no user record is removed.
C19_AppendOnly ==
    [][ (lumi_users.state # "corrupt")
        => ( /\ LocalUsers \subseteq LocalUsers'
             /\ \A u \in Names :
                  /\ IsPrefix(LocalList(u), LocalList(u)')
                  /\ (LocalList(u)' # LocalList(u))
                     => ( /\ last'.op = "addBadge"
                          /\ last'.ok
                          /\ last'.path \in {"local", "fallback"}
                          /\ last'.user = u
                          /\ LocalList(u)' =
                                Append(LocalList(u), [name |-> last'.name,
                                                      emoji |-> last'.emoji]) ) )
      ]_vars

C19_Witness ==
    /\ Len(log) = 3
    /\ log[1].op = "addBadge" /\ log[1].user = <<"a">> /\ log[1].ok
    /\ log[2].op = "setCurrentUser" /\ log[2].user = <<"a">>
    /\ log[2].path = "local"
    /\ log[3].op = "addBadge" /\ log[3].user = <<"a">> /\ log[3].ok
    /\ Len(LocalList(<<"a">>)) = 2
    /\ LocalList(<<"a">>)[1].name = log[1].name
    /\ LocalList(<<"a">>)[2].name = log[3].name

\* the badges the remote store holds for username u, oldest first
RemoteList(u) ==
    IF RemoteUser(u)
    THEN SelectBadges(dbBadges, SelectUserId(dbUsers, u))
    ELSE <<>>

\* C20: addBadge(u, n, e) for a username with no existing record creates u's
\* record in the backend the session is using and stores the badge there: on
\* the local path u then exists in LocalStore with exactly that one badge, on
\* the remote path u then exists in the remote store with exactly that one
\* badge; stated for the first call on a fresh LocalStore, with no failure of
\* the remote store or of the LocalStore write.
C20_FirstBadgeCreatesUser ==
    ( /\ Len(log) = 1
      /\ last.op = "addBadge"
      /\ Healthy(last)
      /\ ~last.saveFailed )
    => LET one == <<[name |-> last.name, emoji |-> last.emoji]>> IN
       /\ (last.path = "local")
          => ( /\ last.user \in LocalUsers
               /\ LocalList(last.user) = one )
       /\ (RemoteRouted(last) /\ Answered(last, "users.select", "notfound"))
          => ( /\ RemoteUser(last.user)
               /\ Len(RemoteList(last.user)) = 1 )

\* the call of rec was made with the emoji argument omitted
EmojiOmitted(rec) ==
    \E b \in BadgeArgs \cup AnyBadgeArgs : b[1] = rec.name /\ b[2] = Omitted

\* the emoji of the badge the successful addBadge of rec stored
StoredEmoji(rec) ==
    IF rec.path = "remote"
    THEN dbBadges[Len(dbBadges)].badge_emoji
    ELSE LocalList(rec.user)[Len(LocalList(rec.user))].emoji

\* C21: a badge added through the facade by addBadge(u, n) with the emoji
\* omitted is stored with the non-empty default emoji glyph, and the same
\* default is used on the local path, the remote path and the remote-fallback
\* path.
C21_DefaultEmoji ==
    ( /\ last.op = "addBadge"
      /\ last.ok
      /\ EmojiOmitted(last) )
    => ( /\ StoredEmoji(last) # ""
         /\ \A i \in DOMAIN log :
              (log[i].op = "addBadge" /\ EmojiOmitted(log[i]))
              => log[i].emoji = last.emoji )

\* C22: when the persisted LocalStore blob is missing or unparsable,
\* getAllUsers returns an empty mapping and getBadges(u) returns an empty
\* sequence for every u, on the facade's local path and on the remote-fallback
\* read path, without throwing.
C22_UnreadableBlobIsEmpty ==
    (lumi_users.state # "json")
    => ( /\ GetAllUsers(lumi_users) = EmptyMap
         /\ GetAllUsersFromLocalStorage(lumi_users) = EmptyMap
         /\ ( /\ last.op = "getBadges"
              /\ last.path \in {"local", "fallback"} )
            => ( /\ last.list = <<>>
                 /\ ~last.threw ) )

C22_Witness ==
    /\ lumi_users.state = "corrupt"
    /\ Len(log) = 3
    /\ log[1].op = "getBadges"
    /\ log[1].path = "fallback"
    /\ Failed(log[1], "badges.select")
    /\ log[1].list = <<>>
    /\ log[2].op = "setCurrentUser"
    /\ log[2].path = "local"
    /\ log[3].op = "getBadges"
    /\ log[3].path = "local"
    /\ log[3].list = <<>>

\* C23: verifyMigration(u) reports localCount equal to the number of badges of
\* u in LocalStore and supabaseCount equal to the number of badges of u in the
\* remote store, and success exactly when the two are equal; in particular,
\* when LocalStore holds one more badge than the remote store it reports
\* success = false with localCount = supabaseCount + 1.  Stated for the calls
\* made with a remote store in use whose LocalStore count the facade read from
\* LocalStore.
C23_VerifyCounts ==
    ( /\ last.op = "verifyMigration"
      /\ pending = NoPending
      /\ UseSupabase
      /\ last.path = "local" )
    => ( /\ last.localCount = Len(LocalList(last.user))
         /\ last.supabaseCount = Len(RemoteList(last.user))
         /\ last.ok <=> (last.localCount = last.supabaseCount)
         /\ (Len(LocalList(last.user)) = Len(RemoteList(last.user)) + 1)
            => ( /\ ~last.ok
                 /\ last.localCount = last.supabaseCount + 1 ) )

\* call i of the log is a migrateUserData of a user with a LocalStore record,
\* made with a remote store that answered every call, found with no badge row
MigratedHealthy(i) ==
    /\ log[i].op = "migrateUserData"
    /\ log[i].message # "No data to migrate"
    /\ UseSupabase
    /\ Healthy(log[i])
    /\ \A j \in 1..(i - 1) : ~Made(log[j], "badges.insert")

\* C24: when the remote store is healthy and holds no badges for u,
\* migrateUserData(u) on a user with k local badges reports migratedCount = k
\* and failedCount = 0, adds exactly k badge rows for u to the remote store,
\* and a following verifyMigration(u) reports success with
\* localCount = supabaseCount = k.
C24_MigrateThenVerify ==
    /\ (log # <<>> /\ pending = NoPending /\ MigratedHealthy(Len(log)))
       => ( /\ last.ok
            /\ last.migratedCount = last.count
            /\ last.failedCount = 0
            /\ Len(RemoteList(last.user)) = last.count
            /\ Len(dbBadges) = last.count )
    /\ ( /\ Len(log) = 2
         /\ MigratedHealthy(1)
         /\ last.op = "verifyMigration"
         /\ last.user = log[1].user
         /\ Healthy(last) )
       => ( /\ last.ok
            /\ last.localCount = log[1].count
            /\ last.supabaseCount = log[1].count )

C24_Witness ==
    /\ Len(log) = 2
    /\ MigratedHealthy(1)
    /\ log[1].count = 2
    /\ log[1].migratedCount = 2
    /\ last.op = "verifyMigration"
    /\ Healthy(last)
    /\ last.ok
    /\ last.supabaseCount = 2
    /\ Len(dbBadges) = 2

\* the names of the first k badges LocalStore holds for u, in list order
LocalNames(u, k) == [i \in 1..k |-> LocalList(u)[i].name]

\* C25: migrateUserData(u) attempts every badge in u's LocalStore list exactly
\* once, in list order; a failed insert does not stop the remaining inserts,
\* and on return migratedCount + failedCount equals the number of local badges
\* of u.  Stated for the calls made with a remote store in use that got past
\* supabaseStorage.setCurrentUser; last.count is the length of the list the
\* call read.
C25_EveryBadgeAttempted ==
    ( /\ last.op = "migrateUserData"
      /\ pending = NoPending
      /\ UseSupabase
      /\ last.path \in {"remote", "fallback"} )
    => ( /\ last.attempts = LocalNames(last.user, last.count)
         /\ last.migratedCount + last.failedCount = last.count )

\* C26 as stated: verifyMigration(u) mutates no state: LocalStore, the remote
\* store, the session marker and the cache are all the same after the call as
\* before it.
C26_VerifyMutatesNothing ==
    (last.op = "verifyMigration") => (last.touched = {})

\* the step is taken by a verifyMigration call
VerifyStep == pending.op = "verifyMigration" \/ pending'.op = "verifyMigration"

\* the cache entries of the users other than u are kept as they are
CacheKeptBut(u) ==
    \A type \in {"users", "badges"} :
        \A k \in DOMAIN cache[type].map :
            (cache[type].set /\ k # u)
            => ( /\ Cached(cache', type, k)
                 /\ cache'[type].map[k] = cache[type].map[k] )

\* C26, amended: verifyMigration(u) leaves LocalStore, the remote store and the
\* session marker as they were; the only state it changes is the cache, where
\* its two reads store the id and the badge list of u and keep the entries of
\* every other user.
C26_VerifyFillsCacheOnly ==
    [][ VerifyStep
        => ( /\ lumi_users' = lumi_users
             /\ dbUsers' = dbUsers
             /\ dbBadges' = dbBadges
             /\ authUsers' = authUsers
             /\ session' = session
             /\ currentUserId' = currentUserId
             /\ CacheKeptBut(IF pending.op = "verifyMigration"
                             THEN pending.user ELSE pending'.user) ) ]_vars

C26_Witness ==
    /\ Len(log) = 2
    /\ log[1].op = "verifyMigration"
    /\ log[1].user = <<"b">>
    /\ last.op = "verifyMigration"
    /\ last.user = <<"a">>
    /\ last.touched = {"cache"}
    /\ Cached(cache, "badges", <<"a">>)
    /\ Cached(cache, "badges", <<"b">>)

\* C27: migrateUserData(u) for a user with no local badge list to migrate (no
\* record, or a record with no badges) reports success with an explanatory
\* message and issues no remote call; stated for the calls made with a remote
\* store in use.  last.count is the number of badges the call read.
C27_NothingToMigrate ==
    ( /\ last.op = "migrateUserData"
      /\ UseSupabase
      /\ last.count = 0 )
    => ( /\ last.ok
         /\ last.message # ""
         /\ last.calls = <<>>
         /\ "remote" \notin last.touched )

\* C28: resolve-or-create is atomic and idempotent: any number of
\* get_or_create_user calls with the same username, sequential or concurrent,
\* all return the same user id, none of them fails, and the remote store holds
\* exactly one user row for that username.
C28_ResolveOrCreateAtomic ==
    \A t \in 1..MaxTxns :
        (txns[t].pc = "done")
        => ( /\ txns[t].ok
             /\ Cardinality({row \in dbUsers :
                               row.username = txns[t].p_username}) = 1
             /\ \A o \in 1..MaxTxns :
                  ( /\ txns[o].pc = "done"
                    /\ txns[o].p_username = txns[t].p_username )
                  => txns[o].id = txns[t].id )

\* C29: a getBadges(u) started after an addBadge(u, ...) has completed returns
\* a list containing the new badge in every interleaving of asynchronous
\* steps, including one where an earlier getBadges(u) was still awaiting its
\* remote response while the addBadge ran and received that response
\* afterwards.  Stated for an addBadge whose remote insert succeeded and a
\* later getBadges routed to the remote store none of whose remote calls fails.
C29_ReadAfterWrite ==
    \A i \in DOMAIN log : \A j \in DOMAIN log :
        ( /\ log[i].op = "addBadge" /\ log[i].ok /\ log[i].path = "remote"
          /\ log[j].op = "getBadges" /\ log[j].user = log[i].user
          /\ log[j].begun >= i
          /\ log[j].path = "remote" /\ Healthy(log[j]) )
        => Holds(log[j].list, log[i].name, log[i].emoji)

\* C30: every facade operation that uses the remote store (setCurrentUser,
\* addBadge, getBadges) eventually completes even when a remote call never
\* responds: the stalled call is treated as failed after a bounded wait and the
\* fallback policy is applied.
C30_StalledCallCompletes == (pending.op # "none") ~> (pending.op = "none")

\* the calls k..j belong to one session: log[k] is a successful setCurrentUser
\* and no setCurrentUser or logout follows it up to j
OneSession(k, j) ==
    /\ log[k].op = "setCurrentUser" /\ log[k].ok
    /\ \A m \in (k + 1)..j : log[m].op \notin {"setCurrentUser", "logout"}

\* C31: within one session (from a successful setCurrentUser to the next logout
\* or setCurrentUser), after the first badge operation that fell back to
\* LocalStore because the remote failed, every later badge operation of that
\* session also uses LocalStore, so the badges written in one session are never
\* split between the remote store and LocalStore.
C31_FallbackIsSticky ==
    \A k \in DOMAIN log : \A i \in DOMAIN log : \A j \in DOMAIN log :
        ( /\ k < i /\ i < j /\ OneSession(k, j)
          /\ log[i].op \in BadgeOps /\ log[i].path = "fallback" /\ log[i].ok
          /\ log[j].op \in BadgeOps )
        => log[j].path \in {"local", "fallback"}

\* the remote store applied the insert of the addBadge call of rec
InsertApplied(rec) ==
    Answered(rec, "badges.insert", "ok") \/ Answered(rec, "badges.insert", "lost")

\* C32: each addBadge call that returns success stores its badge exactly once
\* in exactly one store: never in both the remote store and LocalStore,
\* including when the remote insert was applied by the server but its response
\* was lost or came back as an error.
C32_StoredInOneStore ==
    \A i \in DOMAIN log :
        (log[i].op = "addBadge" /\ log[i].ok)
        => (InsertApplied(log[i]) # log[i].wrote)

\* the number of badge rows the remote store added for the call of rec
RowsAdded(rec) ==
    Cardinality({k \in DOMAIN rec.calls :
                    /\ rec.calls[k][1] = "badges.insert"
                    /\ rec.calls[k][2] \in {"ok", "lost"}})

\* C33: migratedCount reported by migrateUserData(u) equals the number of badge
\* rows the call added to the remote store for u, whatever the availability of
\* the remote store during the call.  Stated for the calls that return a
\* result carrying the counts (success) and in which every insert the remote
\* store applied was also acknowledged.
C33_MigratedCountIsRows ==
    \A i \in DOMAIN log :
        ( /\ log[i].op = "migrateUserData" /\ log[i].ok /\ UseSupabase
          /\ ~Answered(log[i], "badges.insert", "lost") )
        => log[i].migratedCount = RowsAdded(log[i])

\* C34: migrateUserData and migrateAllUsers only read LocalStore: after they
\* return, every user's badge sequence in LocalStore is the same as before the
\* call, whether the remote calls succeeded or failed.  Stated for a remote
\* store in use.
C34_MigrationReadsLocalStore ==
    \A i \in DOMAIN log :
        (log[i].op = "migrateUserData" /\ UseSupabase)
        => "LocalStore" \notin log[i].touched

\* a step of migrateUserData: it starts, inserts a badge or returns
MigrationStep ==
    \/ pending.op = "migrateUserData"
    \/ pending'.op = "migrateUserData"
    \/ Len(log') > Len(log) /\ log'[Len(log')].op = "migrateUserData"

\* C35: migrateUserData and migrateAllUsers leave the session untouched: the
\* current username and the local-only routing flag are the same after the
\* call as before it.  Stated for a remote store in use.
C35_MigrationKeepsSession ==
    [][(UseSupabase /\ MigrationStep)
       => ( /\ session'.current_user = session.current_user
            /\ session'.use_local_only = session.use_local_only )]_vars

\* C36: during a burst of addBadge calls for the same username within the TTL
\* window on the remote path, the user id is looked up in the remote store at
\* most once; every later call of the burst resolves it from the cache.
\* Stated for consecutive addBadge calls whose remote calls all succeed.
C36_OneLookupPerBurst ==
    \A i \in 1..(Len(log) - 1) :
        ( /\ log[i].op = "addBadge" /\ log[i].path = "remote" /\ log[i].ok
          /\ log[i + 1].op = "addBadge" /\ log[i + 1].user = log[i].user
          /\ log[i + 1].path = "remote" /\ Healthy(log[i + 1])
          /\ log[i + 1].at - log[i].at < CacheTimeout )
        => ( /\ ~Made(log[i + 1], "users.select")
             /\ log[i + 1].idHit )

\* C37: once logout() has been called, the session marker stays absent and the
\* cache stays empty until an operation issued after the logout sets them: a
\* setCurrentUser or getBadges that was already awaiting a remote response when
\* logout ran does not restore the marker or repopulate the cache when its
\* response arrives.
C37_LogoutNotUndone ==
    \A i \in DOMAIN log :
        ( /\ log[i].op = "logout"
          /\ \A j \in (i + 1)..Len(log) : log[j].begun < i
          /\ pending.op # "none" => pending.begun < i )
        => ( /\ session.current_user = Null
             /\ cache = EmptyCache )

\* the remote store holds an account for u under another password than any
\* typed, so that sign-in and registration with a typed credential are rejected
WrongCredential(u) ==
    /\ Email(u) \in DOMAIN authUsers
    /\ authUsers[Email(u)] \notin Passwords

\* C38: a credentialed setCurrentUser(u, c) whose credential is rejected by the
\* remote store (sign-in fails and registration with the same credential fails
\* too) never leaves the session marker set to u.
C38_RejectedCredentialNoSession ==
    ( /\ IsLogin(last) /\ last.cred /\ WrongCredential(last.user)
      /\ Answered(last, "auth.signInWithPassword", "invalid")
      /\ Answered(last, "auth.signUp", "error") )
    => session.current_user # last.user

\* the remote call made just before call k of rec
Previous(rec, k) == IF k = 1 THEN <<"none", "none">> ELSE rec.calls[k - 1]

\* C39: in the credentialed setCurrentUser, registration (signUp) is attempted
\* only after a sign-in attempt with the same credential failed with 'invalid
\* login credentials', get_or_create_user is called only after sign-in or
\* registration returned an authenticated user, and the session is marked as
\* remote (local-only flag removed) only after all of these succeeded.
C39_CredentialedOrder ==
    (IsLogin(last) /\ last.cred /\ last.path # "rejected")
    => ( /\ \A k \in DOMAIN last.calls :
              /\ last.calls[k][1] = "auth.signUp"
                 => Previous(last, k) = <<"auth.signInWithPassword", "invalid">>
              /\ last.calls[k][1] = "rpc.get_or_create_user"
                 => Previous(last, k) \in {<<"auth.signInWithPassword", "ok">>,
                                           <<"auth.signUp", "ok">>}
         /\ (last.ok /\ ~session.use_local_only)
            => ( /\ last.path = "remote"
                 /\ Answered(last, "rpc.get_or_create_user", "ok")
                 /\ session.current_user = last.user ) )

\* a credentialed login that registered the user and marked the session remote
C39_Witness ==
    /\ IsLogin(last) /\ last.cred
    /\ last.calls = << <<"auth.signInWithPassword", "invalid">>,
                       <<"auth.signUp", "ok">>,
                       <<"rpc.get_or_create_user", "ok">> >>
    /\ last.ok /\ ~session.use_local_only /\ session.current_user = last.user

====
